---- MODULE Spec2Model ----
(***************************************************************************)
(* Model of sistema_unificado.py: five structural patterns (Adapter,       *)
(* Facade, Decorator, Composite, Proxy).  The state is the objects the     *)
(* driver has constructed plus an instrumented trace `log` of everything   *)
(* the objects did: every method invocation (a "call" event naming caller, *)
(* callee, method and arguments) and every line written to stdout (a       *)
(* "print" event), in program order.  Every method is synchronous, so one  *)
(* action is one whole top-level call, nested calls included.              *)
(***************************************************************************)
EXTENDS Integers, Sequences, FiniteSets, TLC

VARIABLES
    apis,       \* number of ExternalPaymentAPI objects constructed
    adapters,   \* PaymentAdapter objects: adapters[i] = id of self.external_api
    facades,    \* number of BillingFacade objects (each owns its 3 services)
    msgs,       \* MessageComponent objects: [kind, component]
    ui,         \* UIComponent objects: [kind, label, name, children]
    proxies,    \* DatabaseProxy objects: proxies[i] = self.user_type
    log         \* trace of call and print events

vars == <<apis, adapters, facades, msgs, ui, proxies, log>>

(* ---------------- bounds of the model ---------------- *)
\* objects per class (adapter, facade, proxy)
MaxObjects == 2
\* message components
MaxComponents == 3
\* UI nodes built one by one
MaxNodes == 4
\* top-level operations per behaviour (adapter, facade, proxy)
MaxOps == 3
\* top-level sends per behaviour
MaxSends == 2
\* length of the texts of the exhaustive text set
MaxTextLen == 11
\* objects in all when every group is live together
MaxTotal == 4

(* ---------------- inputs ---------------- *)
Amounts == {0, 100}
Users == {"Alice", ""}
Roles == {"admin", "invitado", "guest", "Admin"}
Labels == {"Pagar"}
Names == {"Nombre", "Correo"}

(* ---------------- the trace ---------------- *)
Main == <<"main", 0>>
Ref(class, id) == <<class, id>>

Call(src, dst, op, args) ==
    [ev |-> "call", src |-> src, dst |-> dst, op |-> op, args |-> args]

\* print(line): the line is the sequence of its pieces, in order
PrintLine(src, line) ==
    [ev |-> "print", src |-> src, dst |-> Ref("stdout", 0), op |-> "print",
     args |-> <<line>>]

\* positions of the log where `dst.op` is invoked
Invocations(dst, op) ==
    {k \in DOMAIN log : log[k].ev = "call" /\ log[k].dst = dst /\ log[k].op = op}

\* positions of the top-level calls (the ones the driver makes)
TopLevel == {k \in DOMAIN log : log[k].ev = "call" /\ log[k].src = Main}

OpCount == Cardinality(TopLevel)

\* the lines on stdout, in order
RECURSIVE LinesOf(_)
LinesOf(events) ==
    IF events = <<>> THEN <<>>
    ELSE IF Head(events).ev = "print"
         THEN <<Head(events).args[1]>> \o LinesOf(Tail(events))
         ELSE LinesOf(Tail(events))

(* ======================= 1. Adapter ======================= *)

\* ExternalPaymentAPI.send_payment(amount), called by `src`
send_payment(src, api, amount) ==
    LET self == Ref("ExternalPaymentAPI", api) IN
    << Call(src, self, "send_payment", <<amount>>),
       PrintLine(self, <<"[API Externa] Pago enviado por $", ToString(amount)>>) >>

\* pay with the external call made before the notice
payCallFirst(src, a, amount) ==
    LET self == Ref("PaymentAdapter", a) IN
    <<Call(src, self, "pay", <<amount>>)>>
    \o send_payment(self, adapters[a], amount)
    \o <<PrintLine(self, <<"[Adapter] Adaptando interfaz interna a API externa...">>)>>

\* PaymentAdapter.pay(amount), called by `src`
pay(src, a, amount) ==
    LET self == Ref("PaymentAdapter", a) IN
    << Call(src, self, "pay", <<amount>>),
       PrintLine(self, <<"[Adapter] Adaptando interfaz interna a API externa...">>) >>
    \o send_payment(self, adapters[a], amount)

\* external_api = ExternalPaymentAPI()
NewExternalPaymentAPI ==
    /\ apis < MaxObjects
    /\ apis' = apis + 1
    /\ UNCHANGED <<adapters, facades, msgs, ui, proxies, log>>

\* PaymentAdapter.__init__(external_api)
PaymentAdapterInit(external_api) ==
    /\ adapters' = Append(adapters, external_api)
    /\ UNCHANGED <<apis, facades, msgs, ui, proxies, log>>

NewPaymentAdapter ==
    /\ Len(adapters) < MaxObjects
    /\ \E external_api \in 1..apis : PaymentAdapterInit(external_api)

\* payment.pay(amount)
Pay ==
    /\ OpCount < MaxOps
    /\ \E a \in DOMAIN adapters, amount \in Amounts :
          log' = log \o pay(Main, a, amount)
    /\ UNCHANGED <<apis, adapters, facades, msgs, ui, proxies>>

(* ======================= 2. Facade ======================= *)

\* InvoiceGenerator.generate(user, amount)
generate(src, f, user, amount) ==
    LET self == Ref("InvoiceGenerator", f) IN
    << Call(src, self, "generate", <<user, amount>>),
       PrintLine(self, <<"[Factura] Generando factura para ", user, " por $",
                     ToString(amount)>>) >>

\* Database.save_invoice(user, amount)
save_invoice(src, f, user, amount) ==
    LET self == Ref("Database", f) IN
    << Call(src, self, "save_invoice", <<user, amount>>),
       PrintLine(self, <<"[BD] Guardando factura de ", user, " por $",
                     ToString(amount)>>) >>

\* MessageSender.send(message)
sender_send(src, f, message) ==
    LET self == Ref("MessageSender", f) IN
    << Call(src, self, "send", <<message>>),
       PrintLine(self, <<"[Mensaje] Enviado: ">> \o message) >>

\* process_billing with the record saved before the invoice is generated
process_billingSaveFirst(src, f, user, amount) ==
    LET self == Ref("BillingFacade", f) IN
    << Call(src, self, "process_billing", <<user, amount>>),
       PrintLine(self, <<"[Fachada] Procesando facturación...">>) >>
    \o save_invoice(self, f, user, amount)
    \o generate(self, f, user, amount)
    \o sender_send(self, f, <<"Factura generada para ", user, " por $",
                              ToString(amount)>>)

\* BillingFacade.process_billing(user, amount)
process_billing(src, f, user, amount) ==
    LET self == Ref("BillingFacade", f) IN
    << Call(src, self, "process_billing", <<user, amount>>),
       PrintLine(self, <<"[Fachada] Procesando facturación...">>) >>
    \o generate(self, f, user, amount)
    \o save_invoice(self, f, user, amount)
    \o sender_send(self, f, <<"Factura generada para ", user, " por $",
                              ToString(amount)>>)

\* BillingFacade.__init__(): the facade builds its own generator, database, sender
BillingFacadeInit ==
    /\ facades' = facades + 1
    /\ UNCHANGED <<apis, adapters, msgs, ui, proxies, log>>

NewBillingFacade ==
    /\ facades < MaxObjects
    /\ BillingFacadeInit

\* facade.process_billing(user, amount)
ProcessBilling ==
    /\ OpCount < MaxOps
    /\ \E f \in 1..facades, user \in Users, amount \in Amounts :
          log' = log \o process_billing(Main, f, user, amount)
    /\ UNCHANGED <<apis, adapters, facades, msgs, ui, proxies>>

(* ======================= 5. Proxy ======================= *)

\* RealDatabase.read()
db_read(src, p) ==
    LET self == Ref("RealDatabase", p) IN
    << Call(src, self, "read", <<>>), PrintLine(self, <<"[BD] Leyendo datos...">>) >>

\* RealDatabase.write()
db_write(src, p) ==
    LET self == Ref("RealDatabase", p) IN
    << Call(src, self, "write", <<>>), PrintLine(self, <<"[BD] Escribiendo datos...">>) >>

\* DatabaseProxy.read()
read(src, p) ==
    LET self == Ref("DatabaseProxy", p) IN
    << Call(src, self, "read", <<>>),
       PrintLine(self, <<"[Proxy] Usuario '", proxies[p], "' accediendo a lectura.">>) >>
    \o db_read(self, p)

\* the test turned into a deny-list of the guest role
MayWriteUnlessGuest(user_type) == user_type # "invitado"

\* the test of DatabaseProxy.write: self.user_type == "admin"
MayWrite(user_type) == user_type = "admin"

\* DatabaseProxy.write()
write(src, p) ==
    LET self == Ref("DatabaseProxy", p) IN
    <<Call(src, self, "write", <<>>)>> \o
    IF MayWrite(proxies[p])
    THEN <<PrintLine(self, <<"[Proxy] Usuario '", proxies[p], "' escribiendo...">>)>>
         \o db_write(self, p)
    ELSE <<PrintLine(self, <<"[Proxy] Acceso denegado para escritura.">>)>>

\* a constructor that reads from its database as soon as it is built
DatabaseProxyInitEager(user_type) ==
    /\ proxies' = Append(proxies, user_type)
    /\ log' = log \o db_read(Ref("DatabaseProxy", Len(proxies) + 1), Len(proxies) + 1)
    /\ UNCHANGED <<apis, adapters, facades, msgs, ui>>

\* DatabaseProxy.__init__(user_type): the proxy builds its own RealDatabase
DatabaseProxyInit(user_type) ==
    /\ proxies' = Append(proxies, user_type)
    /\ UNCHANGED <<apis, adapters, facades, msgs, ui, log>>

NewDatabaseProxy ==
    /\ Len(proxies) < MaxObjects
    /\ \E user_type \in Roles : DatabaseProxyInit(user_type)

\* db.read()
ProxyRead ==
    /\ OpCount < MaxOps
    /\ \E p \in DOMAIN proxies : log' = log \o read(Main, p)
    /\ UNCHANGED <<apis, adapters, facades, msgs, ui, proxies>>

\* db.write()
ProxyWrite ==
    /\ OpCount < MaxOps
    /\ \E p \in DOMAIN proxies : log' = log \o write(Main, p)
    /\ UNCHANGED <<apis, adapters, facades, msgs, ui, proxies>>

(* ======================= 3. Decorator ======================= *)

\* a text is the sequence of its characters
EncOpen == <<"<", "e", "n", "c", "r", "i", "p", "t", "a", "d", "o", ">">>
EncClose == <<"<", "/", "e", "n", "c", "r", "i", "p", "t", "a", "d", "o", ">">>
CompOpen == <<"<", "c", "o", "m", "p", "r", "i", "m", "i", "d", "o", ">">>
CompClose ==
    <<".", ".", ".", "<", "/", "c", "o", "m", "p", "r", "i", "m", "i", "d", "o", ">">>

\* the 10 of message[:10]
SliceEnd == 10

\* a reversal that reverses nothing
ReversedNot(message) == message

\* message[::-1]: from the last character down to the first
RECURSIVE Reversed(_)
Reversed(message) ==
    IF message = <<>> THEN <<>>
    ELSE Reversed(Tail(message)) \o <<Head(message)>>

\* a slice one character too long
PrefixOneMore(message) ==
    SubSeq(message, 1, IF Len(message) < SliceEnd + 1 THEN Len(message) ELSE SliceEnd + 1)

\* no slice at all
PrefixAll(message) == message

\* message[:SliceEnd]: a slice past the end stops at the end
Prefix(message) ==
    SubSeq(message, 1, IF Len(message) < SliceEnd THEN Len(message) ELSE SliceEnd)

\* a layer that hands the message on untouched
encryptedNot(message) == message

\* encrypted = f"<encriptado>{message[::-1]}</encriptado>"
encrypted(message) == EncOpen \o Reversed(message) \o EncClose

\* compressed = f"<comprimido>{message[:10]}...</comprimido>"
compressed(message) == CompOpen \o Prefix(message) \o CompClose

NewComponent(kind, component) == [kind |-> kind, component |-> component]

RECURSIVE send(_, _, _), sendOriginal(_, _, _)

\* send where the compression layer hands on the message it was given
sendOriginal(src, m, message) ==
    LET self == Ref("MessageComponent", m)
        call == Call(src, self, "send", <<message>>)
    IN  CASE msgs[m].kind = "BasicMessage" ->
               <<call, PrintLine(self, <<"[Mensaje] ">> \o message)>>
          [] msgs[m].kind = "EncryptionDecorator" ->
               <<call>> \o sendOriginal(self, msgs[m].component, encrypted(message))
          [] msgs[m].kind = "CompressionDecorator" ->
               <<call>> \o sendOriginal(self, msgs[m].component, message)

\* MessageComponent.send(message) on component m, dispatched on its class
send(src, m, message) ==
    LET self == Ref("MessageComponent", m)
        call == Call(src, self, "send", <<message>>)
    IN  CASE msgs[m].kind = "BasicMessage" ->
               <<call, PrintLine(self, <<"[Mensaje] ">> \o message)>>
          [] msgs[m].kind = "EncryptionDecorator" ->
               <<call>> \o send(self, msgs[m].component, encrypted(message))
          [] msgs[m].kind = "CompressionDecorator" ->
               <<call>> \o send(self, msgs[m].component, compressed(message))

\* BasicMessage()
NewBasicMessage ==
    /\ Len(msgs) < MaxComponents
    /\ msgs' = Append(msgs, NewComponent("BasicMessage", 0))
    /\ UNCHANGED <<apis, adapters, facades, ui, proxies, log>>

\* EncryptionDecorator.__init__(component)
EncryptionDecoratorInit(component) ==
    /\ msgs' = Append(msgs, NewComponent("EncryptionDecorator", component))
    /\ UNCHANGED <<apis, adapters, facades, ui, proxies, log>>

\* CompressionDecorator.__init__(component)
CompressionDecoratorInit(component) ==
    /\ msgs' = Append(msgs, NewComponent("CompressionDecorator", component))
    /\ UNCHANGED <<apis, adapters, facades, ui, proxies, log>>

\* a decorator wraps a component built before it, so every chain is acyclic
NewEncryptionDecorator ==
    /\ Len(msgs) < MaxComponents
    /\ \E component \in DOMAIN msgs : EncryptionDecoratorInit(component)

NewCompressionDecorator ==
    /\ Len(msgs) < MaxComponents
    /\ \E component \in DOMAIN msgs : CompressionDecoratorInit(component)

HelloWorld == <<"H", "E", "L", "L", "O", " ", "W", "O", "R", "L", "D">>
Texts == {<<>>, <<"A", "B">>, HelloWorld}

\* component.send(text)
Send ==
    /\ OpCount < MaxSends
    /\ \E m \in DOMAIN msgs, text \in Texts : log' = log \o send(Main, m, text)
    /\ UNCHANGED <<apis, adapters, facades, msgs, ui, proxies>>

\* every text of at most MaxTextLen characters over a two-letter alphabet
Alphabet == {"a", "b"}
AllTexts == UNION {[1..n -> Alphabet] : n \in 0..MaxTextLen}

\* base, Enc(base), Comp(Enc(base)), Comp(base), Enc(Comp(base))
Chains ==
    << NewComponent("BasicMessage", 0),
       NewComponent("EncryptionDecorator", 1),
       NewComponent("CompressionDecorator", 2),
       NewComponent("CompressionDecorator", 1),
       NewComponent("EncryptionDecorator", 4) >>

\* one send of any text through one of the chains
SendText ==
    /\ log = <<>>
    /\ \E m \in DOMAIN msgs, text \in AllTexts : log' = send(Main, m, text)
    /\ UNCHANGED <<apis, adapters, facades, msgs, ui, proxies>>

(* ======================= 4. Composite ======================= *)

\* the 2 of depth + 2
Indent == 2

\* " " * depth
Spaces(depth) == [i \in 1..depth |-> " "]

NewNode(kind, label, name) ==
    [kind |-> kind, label |-> label, name |-> name, children |-> <<>>]

RECURSIVE render(_, _, _), renderAll(_, _, _), renderAllBackwards(_, _, _)

\* UIComponent.render(depth) on node n, dispatched on its class
render(src, n, depth) ==
    LET self == Ref("UIComponent", n)
        call == Call(src, self, "render", <<depth>>)
    IN  CASE ui[n].kind = "Button" ->
               <<call, PrintLine(self, Spaces(depth) \o <<"[Botón: ", ui[n].label, "]">>)>>
          [] ui[n].kind = "TextField" ->
               <<call, PrintLine(self, Spaces(depth)
                                       \o <<"[Campo de Texto: ", ui[n].name, "]">>)>>
          [] ui[n].kind = "Panel" ->
               <<call, PrintLine(self, Spaces(depth) \o <<"[Panel]">>)>>
               \o renderAll(self, ui[n].children, depth + Indent)

\* the loop run from the last child to the first
renderAllBackwards(src, children, depth) ==
    IF children = <<>> THEN <<>>
    ELSE renderAllBackwards(src, Tail(children), depth)
         \o render(src, Head(children), depth)

\* for c in self.children: c.render(depth)
renderAll(src, children, depth) ==
    IF children = <<>> THEN <<>>
    ELSE render(src, Head(children), depth) \o renderAll(src, Tail(children), depth)

\* the heap u with one more node / with component appended to p's children
WithNode(u, node) == Append(u, node)
WithChild(u, p, component) == [u EXCEPT ![p].children = Append(@, component)]

\* Button(label)
ButtonInit(label) ==
    /\ ui' = WithNode(ui, NewNode("Button", label, ""))
    /\ UNCHANGED <<apis, adapters, facades, msgs, proxies, log>>

\* TextField(name)
TextFieldInit(name) ==
    /\ ui' = WithNode(ui, NewNode("TextField", "", name))
    /\ UNCHANGED <<apis, adapters, facades, msgs, proxies, log>>

\* Panel()
PanelInit ==
    /\ ui' = WithNode(ui, NewNode("Panel", "", ""))
    /\ UNCHANGED <<apis, adapters, facades, msgs, proxies, log>>

\* Panel.add(component)
add(p, component) ==
    /\ ui' = WithChild(ui, p, component)
    /\ UNCHANGED <<apis, adapters, facades, msgs, proxies, log>>

NewButton == Len(ui) < MaxNodes /\ \E label \in Labels : ButtonInit(label)

NewTextField == Len(ui) < MaxNodes /\ \E name \in Names : TextFieldInit(name)

NewPanel == Len(ui) < MaxNodes /\ PanelInit

Range(s) == {s[i] : i \in DOMAIN s}

\* the nodes of the subtree of n, n included
RECURSIVE Subtree(_)
Subtree(n) == {n} \cup UNION {Subtree(c) : c \in Range(ui[n].children)}

HasParent(c) == \E p \in DOMAIN ui : c \in Range(ui[p].children)

\* panel.add(component).  The driver builds trees: the component added has no
\* parent yet and does not contain the panel (a cycle makes render recurse
\* without end).
Add ==
    \E p \in DOMAIN ui, c \in DOMAIN ui :
        /\ ui[p].kind = "Panel"
        /\ ~HasParent(c)
        /\ p \notin Subtree(c)
        /\ add(p, c)

\* the tree the driver builds: main_panel (1), Button("Pagar") (2),
\* sub_panel (3), TextField("Nombre") (4), TextField("Correo") (5)
DemoTree ==
    LET u1 == WithNode(<<>>, NewNode("Panel", "", ""))
        u2 == WithChild(WithNode(u1, NewNode("Button", "Pagar", "")), 1, 2)
        u3 == WithNode(u2, NewNode("Panel", "", ""))
        u4 == WithChild(WithNode(u3, NewNode("TextField", "", "Nombre")), 3, 4)
        u5 == WithChild(WithNode(u4, NewNode("TextField", "", "Correo")), 3, 5)
    IN  WithChild(u5, 1, 3)

\* the driver's construction of its tree, as one step
DemoComposite ==
    /\ ui = <<>>
    /\ ui' = DemoTree
    /\ UNCHANGED <<apis, adapters, facades, msgs, proxies, log>>

\* node.render(), depth defaulting to 0; one render per behaviour
Render ==
    /\ log = <<>>
    /\ \E n \in DOMAIN ui : log' = log \o render(Main, n, 0)
    /\ UNCHANGED <<apis, adapters, facades, msgs, ui, proxies>>

(* ======================= specifications ======================= *)

Init ==
    /\ apis = 0
    /\ adapters = <<>>
    /\ facades = 0
    /\ msgs = <<>>
    /\ ui = <<>>
    /\ proxies = <<>>
    /\ log = <<>>

NextAdapter == NewExternalPaymentAPI \/ NewPaymentAdapter \/ Pay
SpecAdapter == Init /\ [][NextAdapter]_vars

NextFacade == NewBillingFacade \/ ProcessBilling
SpecFacade == Init /\ [][NextFacade]_vars

NextProxy == NewDatabaseProxy \/ ProxyRead \/ ProxyWrite
SpecProxy == Init /\ [][NextProxy]_vars

NextDecorator ==
    NewBasicMessage \/ NewEncryptionDecorator \/ NewCompressionDecorator \/ Send
SpecDecorator == Init /\ [][NextDecorator]_vars

InitTransform ==
    /\ apis = 0
    /\ adapters = <<>>
    /\ facades = 0
    /\ msgs = Chains
    /\ ui = <<>>
    /\ proxies = <<>>
    /\ log = <<>>

SpecTransform == InitTransform /\ [][SendText]_vars

NextComposite ==
    NewButton \/ NewTextField \/ NewPanel \/ Add \/ DemoComposite \/ Render
SpecComposite == Init /\ [][NextComposite]_vars

\* every group live together
TotalObjects ==
    apis + Len(adapters) + facades + Len(msgs) + Len(ui) + Len(proxies)

Construct ==
    \/ NewExternalPaymentAPI \/ NewPaymentAdapter
    \/ NewBillingFacade
    \/ NewBasicMessage \/ NewEncryptionDecorator \/ NewCompressionDecorator
    \/ NewButton \/ NewTextField \/ NewPanel
    \/ NewDatabaseProxy

Operate ==
    Pay \/ ProcessBilling \/ Send \/ Render \/ ProxyRead \/ ProxyWrite

Next ==
    \/ TotalObjects < MaxTotal /\ Construct
    \/ Add
    \/ log = <<>> /\ Operate
Spec == Init /\ [][Next]_vars

(* ======================= properties ======================= *)

IsCall(k, op) == log[k].ev = "call" /\ log[k].op = op
CallsOf(op) == {k \in DOMAIN log : IsCall(k, op)}

(* ---------------- Proxy ---------------- *)
ProxyRef(p) == Ref("DatabaseProxy", p)
DbRef(p) == Ref("RealDatabase", p)

\* C1: whatever reads and writes were made, the store's write has been invoked
\* once for every write() on a proxy whose role is exactly "admin" and never
\* for a proxy of any other role, and the store's read once for every read()
\* on any proxy; each delegated call is made by the proxy, right after its
\* logging line.
ProxyAccessControl ==
    \A p \in DOMAIN proxies :
        /\ \A k \in Invocations(ProxyRef(p), "write") :
              /\ (proxies[p] = "admin") <=> (k + 2 \in Invocations(DbRef(p), "write"))
              /\ proxies[p] # "admin" => (k + 2 > Len(log) \/ k + 2 \in TopLevel)
        /\ Cardinality(Invocations(DbRef(p), "write")) =
              IF proxies[p] = "admin"
              THEN Cardinality(Invocations(ProxyRef(p), "write"))
              ELSE 0
        /\ \A k \in Invocations(ProxyRef(p), "read") :
              k + 2 \in Invocations(DbRef(p), "read")
        /\ Cardinality(Invocations(DbRef(p), "read")) =
              Cardinality(Invocations(ProxyRef(p), "read"))

\* an admin proxy and a guest proxy have both written, and the guest has read
ProxyWitness ==
    \E p, q \in DOMAIN proxies :
        /\ proxies[p] = "admin"
        /\ proxies[q] = "guest"
        /\ Invocations(ProxyRef(p), "write") # {}
        /\ Invocations(ProxyRef(q), "write") # {}
        /\ Invocations(ProxyRef(q), "read") # {}

(* ---------------- Facade ---------------- *)
\* C2: every process_billing(u, a) is followed, in this order and before the
\* next top-level call, by generate(u, a) on the facade's generator,
\* save_invoice(u, a) on its database and send of the message made from u and
\* a on its sender, each made by the facade once: no step is skipped, repeated
\* or run early.
BillingOrder ==
    /\ \A k \in TopLevel :
          LET c == log[k]
              f == c.dst[2]
              u == c.args[1]
              a == c.args[2]
          IN  /\ k + 7 <= Len(log)
              /\ \A j \in (k + 1)..(k + 7) : j \notin TopLevel
              /\ {j \in k..(k + 7) : log[j].ev = "call"} = {k, k + 2, k + 4, k + 6}
              /\ IsCall(k + 2, "generate")
              /\ log[k + 2].src = c.dst
              /\ log[k + 2].dst = Ref("InvoiceGenerator", f)
              /\ log[k + 2].args = <<u, a>>
              /\ IsCall(k + 4, "save_invoice")
              /\ log[k + 4].src = c.dst
              /\ log[k + 4].dst = Ref("Database", f)
              /\ log[k + 4].args = <<u, a>>
              /\ IsCall(k + 6, "send")
              /\ log[k + 6].src = c.dst
              /\ log[k + 6].dst = Ref("MessageSender", f)
              /\ log[k + 6].args =
                    << <<"Factura generada para ", u, " por $", ToString(a)>> >>
    /\ \A op \in {"generate", "save_invoice", "send"} :
          Cardinality(CallsOf(op)) = OpCount

\* two billings with different users and amounts have run
BillingWitness ==
    \E j, k \in TopLevel :
        /\ j < k
        /\ log[j].args = <<"Alice", 100>>
        /\ log[k].args = <<"", 0>>

(* ---------------- Adapter ---------------- *)
\* C3: every pay(a) with a >= 0 emits the adaptation notice and then invokes
\* send_payment(a), with the same a, on the adapter's own external API; there
\* is one send_payment per pay.
AdapterDelegates ==
    /\ \A k \in TopLevel :
          LET c == log[k]
              amount == c.args[1]
          IN  amount >= 0 =>
              /\ k + 3 <= Len(log)
              /\ log[k + 1].ev = "print"
              /\ log[k + 1].src = c.dst
              /\ log[k + 1].args[1] =
                    <<"[Adapter] Adaptando interfaz interna a API externa...">>
              /\ IsCall(k + 2, "send_payment")
              /\ log[k + 2].src = c.dst
              /\ log[k + 2].dst = Ref("ExternalPaymentAPI", adapters[c.dst[2]])
              /\ log[k + 2].args = <<amount>>
              /\ {j \in k..(k + 3) : IsCall(j, "send_payment")} = {k + 2}
    /\ Cardinality(CallsOf("send_payment")) = OpCount

\* two adapters over different APIs have paid, one of them the amount 100
AdapterWitness ==
    \E j, k \in TopLevel :
        /\ adapters[log[j].dst[2]] # adapters[log[k].dst[2]]
        /\ log[j].args = <<100>>
        /\ log[k].args = <<0>>

(* ---------------- Decorator ---------------- *)
MsgRef(m) == Ref("MessageComponent", m)
KindOf(ref) == msgs[ref[2]].kind

\* the layers of component m, outermost first
RECURSIVE Layers(_)
Layers(m) ==
    IF msgs[m].kind = "BasicMessage" THEN <<>>
    ELSE <<msgs[m].kind>> \o Layers(msgs[m].component)

Transform(kind, t) ==
    IF kind = "EncryptionDecorator" THEN encrypted(t) ELSE compressed(t)

\* Tn(...T2(T1(t))...) for the layers T1, ..., Tn
RECURSIVE ApplyInOrder(_, _)
ApplyInOrder(kinds, t) ==
    IF kinds = <<>> THEN t
    ELSE ApplyInOrder(Tail(kinds), Transform(Head(kinds), t))

\* the text the base sender is called with in the send that starts at log[k]
Delivered(k) == log[k + Len(Layers(log[k].dst[2]))].args[1]

\* C4: a send(t) on the outermost of n layers makes n + 1 calls, one per
\* layer inward, the i-th layer handing Ti(...T1(t)) to the next; the base
\* sender is called once, with Tn(...T1(t)), prints it and calls nothing.
DecoratorOrder ==
    \A k \in TopLevel :
        LET m == log[k].dst[2]
            t == log[k].args[1]
            n == Len(Layers(m))
        IN  /\ k + n + 1 <= Len(log)
            /\ \A j \in (k + 1)..(k + n + 1) : j \notin TopLevel
            /\ k + n + 2 <= Len(log) => k + n + 2 \in TopLevel
            /\ \A i \in 1..n :
                  /\ IsCall(k + i, "send")
                  /\ log[k + i].src = log[k + i - 1].dst
                  /\ log[k + i].args = <<ApplyInOrder(SubSeq(Layers(m), 1, i), t)>>
            /\ {j \in k..(k + n + 1) :
                   log[j].ev = "call" /\ KindOf(log[j].dst) = "BasicMessage"} = {k + n}
            /\ log[k + n + 1].ev = "print"
            /\ log[k + n + 1].src = log[k + n].dst
            /\ log[k + n + 1].args[1] =
                  <<"[Mensaje] ">> \o ApplyInOrder(Layers(m), t)

\* a non-empty text was sent through two layers of different kinds
DecoratorWitness ==
    \E k \in TopLevel :
        /\ Len(Layers(log[k].dst[2])) = 2
        /\ Layers(log[k].dst[2])[1] # Layers(log[k].dst[2])[2]
        /\ log[k].args[1] # <<>>

\* a send of "HELLO WORLD" to CompressionDecorator(EncryptionDecorator(base))
IsHelloSend(k) ==
    /\ Layers(log[k].dst[2]) = <<"CompressionDecorator", "EncryptionDecorator">>
    /\ log[k].args[1] = HelloWorld

\* C5 as stated: the base sender receives the compression of the encryption
\* of "HELLO WORLD".
HelloCompressionOfEncryption ==
    \A k \in TopLevel :
        IsHelloSend(k) => Delivered(k) = compressed(encrypted(HelloWorld))

EncryptedCompressedHello ==
    <<"<", "e", "n", "c", "r", "i", "p", "t", "a", "d", "o", ">",
      ">", "o", "d", "i", "m", "i", "r", "p", "m", "o", "c", "/", "<",
      ".", ".", ".",
      "L", "R", "O", "W", " ", "O", "L", "L", "E", "H",
      ">", "o", "d", "i", "m", "i", "r", "p", "m", "o", "c", "<",
      "<", "/", "e", "n", "c", "r", "i", "p", "t", "a", "d", "o", ">">>

\* C5 amended: compression, the outer layer, acts first on the original text
\* and keeps "HELLO WORL"; encryption then reverses the whole compressed
\* text, so the base sender receives
\* <encriptado>>odimirpmoc/<...LROW OLLEH>odimirpmoc<</encriptado>.
HelloEncryptionOfCompression ==
    \A k \in TopLevel :
        IsHelloSend(k) =>
            /\ log[k + 1].args[1] =
                  CompOpen \o SubSeq(HelloWorld, 1, 10) \o CompClose
            /\ Delivered(k) = EncryptedCompressedHello

\* "HELLO WORLD" was sent to CompressionDecorator(EncryptionDecorator(base))
HelloWitness == \E k \in TopLevel : IsHelloSend(k)

\* the text the base sender would be called with by a send(t) on m
DeliveredBy(m, t) ==
    LET events == send(Main, m, t) IN events[Len(events) - 1].args[1]

Swapped(kinds) == <<kinds[2], kinds[1]>>

\* C6: the text a two-layer chain of an encryption and a compression hands
\* to the base sender differs from the one the chain with the two layers
\* swapped hands to it, for every text sent.
NotCommutative ==
    \A k \in TopLevel :
        LET kinds == Layers(log[k].dst[2]) IN
        (Len(kinds) = 2 /\ kinds[1] # kinds[2]) =>
            \A m \in DOMAIN msgs :
                Layers(m) = Swapped(kinds) =>
                    Delivered(k) # DeliveredBy(m, log[k].args[1])

\* the empty text was sent to CompressionDecorator(EncryptionDecorator(base))
NotCommutativeWitness ==
    \E k \in TopLevel :
        /\ Layers(log[k].dst[2]) = <<"CompressionDecorator", "EncryptionDecorator">>
        /\ log[k].args[1] = <<>>

\* what the layer called at log[k] hands on is open + body + close
HandsOn(k, open, body, close) ==
    LET d == log[k + 1].args[1] IN
    /\ IsCall(k + 1, "send")
    /\ log[k + 1].src = log[k].dst
    /\ log[k + 1].dst = MsgRef(msgs[log[k].dst[2]].component)
    /\ Len(d) = Len(open) + Len(body) + Len(close)
    /\ SubSeq(d, 1, Len(open)) = open
    /\ \A i \in DOMAIN body : d[Len(open) + i] = body[i]
    /\ SubSeq(d, Len(open) + Len(body) + 1, Len(d)) = close

\* t with its characters in reverse order
Mirror(t) == [i \in 1..Len(t) |-> t[Len(t) + 1 - i]]

EncryptsWith(open, close) ==
    \A k \in CallsOf("send") :
        KindOf(log[k].dst) = "EncryptionDecorator" =>
            HandsOn(k, open, Mirror(log[k].args[1]), close)

SpecEncOpen == <<"<", "e", "n", "c", "r", "y", "p", "t", "e", "d", ">">>
SpecEncClose == <<"<", "/", "e", "n", "c", "r", "y", "p", "t", "e", "d", ">">>

\* C7 as stated: the encryption layer hands on
\* <encrypted> + reverse(t) + </encrypted>.
EncryptsWithEnglishTags == EncryptsWith(SpecEncOpen, SpecEncClose)

\* C7 amended: the encryption layer hands to its inner component
\* <encriptado> + reverse(t) + </encriptado>, reverse(t) being the characters
\* of t in reverse order; the text depends on t alone.
EncryptsWithSpanishTags == EncryptsWith(EncOpen, EncClose)

\* an encryption layer was sent a text that is not its own mirror image
EncryptsWitness ==
    \E k \in CallsOf("send") :
        /\ KindOf(log[k].dst) = "EncryptionDecorator"
        /\ log[k].args[1] = <<"a", "a", "b">>

\* the first min(10, len(t)) characters of t
FirstTen(t) == [i \in 1..(IF Len(t) <= 10 THEN Len(t) ELSE 10) |-> t[i]]

CompressesWith(open, close) ==
    \A k \in CallsOf("send") :
        KindOf(log[k].dst) = "CompressionDecorator" =>
            HandsOn(k, open, FirstTen(log[k].args[1]), close)

SpecCompOpen == <<"<", "c", "o", "m", "p", "r", "e", "s", "s", "e", "d", ">">>
SpecCompClose ==
    <<".", ".", ".", "<", "/", "c", "o", "m", "p", "r", "e", "s", "s", "e", "d", ">">>

\* C8 as stated: the compression layer hands on
\* <compressed> + p + ...</compressed>.
CompressesWithEnglishTags == CompressesWith(SpecCompOpen, SpecCompClose)

\* C8 amended: the compression layer hands to its inner component
\* <comprimido> + p + ...</comprimido>, p being the first min(10, len(t))
\* characters of t; the dots are there whether or not anything was cut.
CompressesWithSpanishTags == CompressesWith(CompOpen, CompClose)

\* a compression layer was sent a text of more than 10 characters
CompressesWitness ==
    \E k \in CallsOf("send") :
        /\ KindOf(log[k].dst) = "CompressionDecorator"
        /\ Len(log[k].args[1]) = 11
        /\ log[k].args[1][11] # log[k].args[1][10]

(* ---------------- Composite ---------------- *)
UiRef(n) == Ref("UIComponent", n)

\* the events a step appends to the log
NewEvents == SubSeq(log', Len(log) + 1, Len(log'))

IsPrint(e) == e.ev = "print"

ParentOf(n) == CHOOSE p \in DOMAIN ui : n \in Range(ui[p].children)
IndexIn(p, n) == CHOOSE i \in DOMAIN ui[p].children : ui[p].children[i] = n

\* the child positions leading from root down to n; its length is n's
\* nesting level under root
RECURSIVE PathFrom(_, _)
PathFrom(root, n) ==
    IF n = root THEN <<>>
    ELSE Append(PathFrom(root, ParentOf(n)), IndexIn(ParentOf(n), n))

\* pre-order: a node before its descendants, an earlier child's subtree
\* before a later child's
Before(a, b) ==
    \E i \in 1..Len(b) :
        /\ i <= Len(a) + 1
        /\ SubSeq(a, 1, i - 1) = SubSeq(b, 1, i - 1)
        /\ i = Len(a) + 1 \/ a[i] < b[i]

NodeText(n) ==
    CASE ui[n].kind = "Button" -> <<"[Botón: ", ui[n].label, "]">>
      [] ui[n].kind = "TextField" -> <<"[Campo de Texto: ", ui[n].name, "]">>
      [] ui[n].kind = "Panel" -> <<"[Panel]">>

\* the events are a pre-order rendering of the tree under root
IsPreorderRendering(root, events) ==
    LET prints == SelectSeq(events, IsPrint)
        node(i) == prints[i].src[2]
    IN  /\ Len(prints) = Cardinality(Subtree(root))
        /\ {node(i) : i \in DOMAIN prints} = Subtree(root)
        /\ \A i \in DOMAIN prints :
              prints[i].args[1] =
                  Spaces(2 * Len(PathFrom(root, node(i)))) \o NodeText(node(i))
        /\ \A i, j \in DOMAIN prints :
              i < j => Before(PathFrom(root, node(i)), PathFrom(root, node(j)))

DemoLines ==
    << <<"[Panel]">>,
       <<" ", " ", "[Botón: ", "Pagar", "]">>,
       <<" ", " ", "[Panel]">>,
       <<" ", " ", " ", " ", "[Campo de Texto: ", "Nombre", "]">>,
       <<" ", " ", " ", " ", "[Campo de Texto: ", "Correo", "]">> >>

\* C9: a render() of a node of a tree emits one line per node of its
\* subtree, a node before its descendants and siblings in insertion order,
\* each line indented by two spaces per nesting level; rendering the
\* driver's tree emits its five lines at depths 0, 2, 2, 4, 4.
RendersPreorder ==
    [][log' # log =>
          LET root == log'[Len(log) + 1].dst[2] IN
          /\ IsPreorderRendering(root, NewEvents)
          /\ (ui = DemoTree /\ root = 1) => LinesOf(NewEvents) = DemoLines]_vars

\* the driver's tree has been rendered from its root
RendersWitness ==
    /\ ui = DemoTree
    /\ log # <<>>
    /\ log[1].dst = UiRef(1)

(* ---------------- Construction ---------------- *)
objects == <<apis, adapters, facades, msgs, ui, proxies>>

Operations == {"pay", "process_billing", "send", "render", "read", "write"}

\* C10: a step that constructs an object or adds a child to a panel leaves
\* the log as it was: no line is printed and no method of any object is
\* invoked; the log grows only by a top-level pay, process_billing, send,
\* render, read or write.
ConstructionIsSilent ==
    [][/\ objects' # objects => log' = log
       /\ log' # log =>
             /\ objects' = objects
             /\ Len(log') > Len(log)
             /\ SubSeq(log', 1, Len(log)) = log
             /\ log'[Len(log) + 1].ev = "call"
             /\ log'[Len(log) + 1].src = Main
             /\ log'[Len(log) + 1].op \in Operations]_vars

\* a facade, a proxy and a panel holding a child exist and nothing was logged
ConstructionWitness ==
    /\ log = <<>>
    /\ facades >= 1
    /\ proxies # <<>>
    /\ \E p \in DOMAIN ui : ui[p].children # <<>>

====
